---- MODULE Spec2Model ----
(***************************************************************************)
(* Model of flexible_load_analysis/flexibility/flexibility_need.py:        *)
(* the OverloadEvent constructor (metrics of one overload window) and the  *)
(* FlexibilityNeed aggregate (recovery times, averages, extract_arrays).   *)
(*                                                                         *)
(* Numbers.  Loads, limits and widths are integers.  A timestamp is an     *)
(* integer count of ticks, TicksPerHour ticks to the hour, and a timedelta *)
(* is a difference of ticks.  Every quotient the code computes is kept as  *)
(* an exact fraction <<n, d>> in lowest terms with d > 0, so that two      *)
(* values are equal in the model exactly when they are equal as reals.     *)
(* Python's float rounding is not modelled.                                *)
(*                                                                         *)
(* Sequences are 1-based here and 0-based in the source: sample i of the   *)
(* model is row i-1 of ts_overload_event.                                  *)
(***************************************************************************)
EXTENDS Integers, Sequences, FiniteSets

VARIABLES call, ev, op, prev, events, need, arrs

vars == <<call, ev, op, prev, events, need, arrs>>

---------------------------------------------------------------------------
(* Bounds of the model                                                     *)

\* longest window, in samples
MaxLen == 3
\* loads are drawn from 0..MaxLoad
MaxLoad == 2
\* most events handed to FlexibilityNeed
MaxEvents == 3

\* power limits tried: negative, zero (the least load), and one that loads
\* of the window may stay below, reach or, for a larger MaxLoad, exceed
Limits == {-100, 0, 2}
\* spacing of consecutive timestamps, in ticks (strictly increasing)
Gaps == {1, 2}
\* widths_for_equally_spaced_timestamps tried (hours)
UniformWidths == {-1, 1, 2}
\* entries of all_timestamp_widths tried (hours)
ListWidths == {1, 2}
\* gap between the end of one event and the start of the next, in ticks
EventGaps == {0, 1, 3}
\* power limit of the events handed to FlexibilityNeed
NeedLimits == {1}

Loads == 0..MaxLoad

\* Python's None, where the model keeps a record
None == [status |-> "None"]

\* all_timestamp_widths: None (the default), or a list of widths
NoWidthList == [is_none |-> TRUE, list |-> <<>>]
WidthList(s) == [is_none |-> FALSE, list |-> s]

---------------------------------------------------------------------------
(* Exact fractions                                                         *)

Abs(x) == IF x < 0 THEN -x ELSE x

RECURSIVE GCD(_, _)
GCD(a, b) == IF b = 0 THEN a ELSE GCD(b, a % b)

\* n / d for d # 0, in lowest terms with a positive denominator
Frac(n, d) ==
    LET g == GCD(Abs(n), Abs(d))
        s == IF d < 0 THEN -1 ELSE 1
    IN  <<(s * n) \div g, (s * d) \div g>>

FracOfInt(n) == <<n, 1>>
FracAdd(a, b) == Frac(a[1] * b[2] + b[1] * a[2], a[2] * b[2])
\* a / b for b # 0
FracDiv(a, b) == Frac(a[1] * b[2], a[2] * b[1])
FracScale(k, a) == Frac(k * a[1], a[2])
FracLeq(a, b) == a[1] * b[2] <= b[1] * a[2]
FracIsZero(a) == a[1] = 0

---------------------------------------------------------------------------
(* utilities (the time-utility collaborator)                               *)

\* ticks to the hour: a timedelta of one tick is 1/TicksPerHour hours
TicksPerHour == 2

\* util.duration_to_hours: a timedelta as a fractional number of hours
duration_to_hours(td) == Frac(td, TicksPerHour)

\* util.undef_timedelta: the undefined duration, unlike any gap between
\* chronological events and convertible to hours (a non-zero number)
undef_timedelta == -1

---------------------------------------------------------------------------
(* numpy                                                                   *)

\* column 1 of the window: ts_overload_event[:, 1]
LoadColumn(ts) == [i \in 1..Len(ts) |-> ts[i][2]]

\* np.max of a non-empty sequence
RECURSIVE np_max(_)
np_max(s) ==
    IF Len(s) = 1 THEN s[1]
    ELSE LET m == np_max(Tail(s)) IN IF s[1] >= m THEN s[1] ELSE m

\* np.argmax: the first position holding the maximum
RECURSIVE np_argmax(_)
np_argmax(s) ==
    IF Len(s) = 1 THEN 1
    ELSE LET j == np_argmax(Tail(s)) IN IF s[1] >= s[j + 1] THEN 1 ELSE j + 1

Min(a, b) == IF a <= b THEN a ELSE b

---------------------------------------------------------------------------
(* OverloadEvent.__init__                                                  *)

\* the loop with fl_energy assigned (=) where the code accumulates (+=)
RECURSIVE AccumulateOverwrite(_, _, _, _, _)
AccumulateOverwrite(loads, width, fl_power_limit, count, acc) ==
    IF acc.iterations = count THEN acc
    ELSE LET i == acc.iterations + 1
             load == loads[i]
         IN  AccumulateOverwrite(loads, width, fl_power_limit, count,
                 [fl_energy |-> IF load > fl_power_limit
                                THEN (load - fl_power_limit) * width[i]
                                ELSE acc.fl_energy,
                  fl_rms_load |-> acc.fl_rms_load + load * width[i],
                  iterations |-> i])

\* One pass of either accumulation loop over `count` samples, sample i
\* weighted by width[i]: fl_energy gains (load - limit) * width only when
\* load > limit, fl_rms_load gains load * width always.
RECURSIVE Accumulate(_, _, _, _, _)
Accumulate(loads, width, fl_power_limit, count, acc) ==
    IF acc.iterations = count THEN acc
    ELSE LET i == acc.iterations + 1
             load == loads[i]
         IN  Accumulate(loads, width, fl_power_limit, count,
                 [fl_energy |-> IF load > fl_power_limit
                                THEN acc.fl_energy + (load - fl_power_limit) * width[i]
                                ELSE acc.fl_energy,
                  fl_rms_load |-> acc.fl_rms_load + load * width[i],
                  iterations |-> i])

AccZero == [fl_energy |-> 0, fl_rms_load |-> 0, iterations |-> 0]

\* for timestamp, load in ts_overload_event: every row, one width for all
EqualSpacingLoop(ts, fl_power_limit, w) ==
    Accumulate(LoadColumn(ts), [i \in 1..Len(ts) |-> w], fl_power_limit, Len(ts), AccZero)

\* for power, width in zip(ts_overload_event[:, 1], all_timestamp_widths):
\* zip stops at the shorter of the two
WidthListLoop(ts, fl_power_limit, widths) ==
    Accumulate(LoadColumn(ts), widths, fl_power_limit, Min(Len(ts), Len(widths)), AccZero)

\* the spike without the clamp: fl_peak_surplus itself
SpikeUnclamped(ts, fl_power_limit) ==
    np_max(LoadColumn(ts)) - fl_power_limit

\* self.fl_spike = max(fl_peak_surplus, 0)
Spike(ts, fl_power_limit) ==
    LET fl_peak_surplus == np_max(LoadColumn(ts)) - fl_power_limit
    IN  IF fl_peak_surplus > 0 THEN fl_peak_surplus ELSE 0

\* self.percentage_overload
PercentageOverload(fl_rms_load, fl_power_limit) ==
    IF fl_power_limit # 0
    THEN FracDiv(FracScale(100, fl_rms_load), FracOfInt(fl_power_limit))
    ELSE FracOfInt(-1)

\* self.fl_ramping
Ramping(ts, fl_power_limit) ==
    LET spike_dur == ts[np_argmax(LoadColumn(ts))][1] - ts[1][1]
        spike_dur_h == duration_to_hours(spike_dur)
    IN  IF ~FracIsZero(spike_dur_h)
        THEN FracDiv(FracOfInt(np_max(LoadColumn(ts)) - fl_power_limit), spike_dur_h)
        ELSE FracOfInt(-1)

\* The constructor.  c is the call: ts_overload_event (a sequence of
\* <<timestamp, load>>), fl_power_limit, equal_timestamp_spacing,
\* widths_for_equally_spaced_timestamps, all_timestamp_widths (None or a
\* list).  The result is the event, or the exception that ended the call.
\* `accumulated` counts the samples the accumulation loop took.
\* A division by zero is the ZeroDivisionError of Python's float division;
\* the record then holds the attributes set before the division.
OverloadEvent(c) ==
    LET ts == c.ts_overload_event
        fl_power_limit == c.fl_power_limit
        dt_start == ts[1][1]
        dt_end == ts[Len(ts)][1]
        duration_h == duration_to_hours(dt_end - dt_start)
        acc == IF c.equal_timestamp_spacing
               THEN EqualSpacingLoop(ts, fl_power_limit, c.widths_for_equally_spaced_timestamps)
               ELSE WidthListLoop(ts, fl_power_limit, c.all_timestamp_widths.list)
        fl_rms_load == FracDiv(FracOfInt(acc.fl_rms_load), duration_h)
    IN  IF ~c.equal_timestamp_spacing /\ c.all_timestamp_widths.is_none
        THEN \* raise ValueError: only the attributes set so far exist
             [status |-> "ValueError",
              dt_start |-> dt_start,
              dt_end |-> dt_end,
              duration_h |-> duration_h,
              fl_spike |-> Spike(ts, fl_power_limit),
              accumulated |-> 0]
        ELSE IF FracIsZero(duration_h)
        THEN \* fl_rms_load / self.duration_h divides by zero
             [status |-> "ZeroDivisionError",
              dt_start |-> dt_start,
              dt_end |-> dt_end,
              duration_h |-> duration_h,
              fl_spike |-> Spike(ts, fl_power_limit),
              fl_surplus_energy_MWh |-> acc.fl_energy,
              accumulated |-> acc.iterations]
        ELSE [status |-> "ok",
              dt_start |-> dt_start,
              dt_end |-> dt_end,
              duration_h |-> duration_h,
              fl_spike |-> Spike(ts, fl_power_limit),
              fl_surplus_energy_MWh |-> acc.fl_energy,
              fl_rms_load |-> fl_rms_load,
              percentage_overload |-> PercentageOverload(fl_rms_load, fl_power_limit),
              fl_ramping |-> Ramping(ts, fl_power_limit),
              accumulated |-> acc.iterations]

---------------------------------------------------------------------------
(* FlexibilityNeed                                                         *)

RECURSIVE FracSum(_)
FracSum(s) == IF s = <<>> THEN FracOfInt(0) ELSE FracAdd(s[1], FracSum(Tail(s)))

\* np.average of a non-empty list
np_average(s) == FracDiv(FracSum(s), FracOfInt(Len(s)))

\* the recovery times measured from each event's start, not its end
RecoveryTimesFromStart(l_overloads) ==
    LET num_overloads == Len(l_overloads)
    IN  [i \in 1..(num_overloads - 1) |->
             l_overloads[i + 1].dt_start - l_overloads[i].dt_start]
        \o <<undef_timedelta>>

\* the loop of FlexibilityNeed.__init__ and the append after it: the gap
\* from each event's end to the next event's start, then the undefined
\* duration for the last event
RecoveryTimes(l_overloads) ==
    LET num_overloads == Len(l_overloads)
    IN  [i \in 1..(num_overloads - 1) |->
             l_overloads[i + 1].dt_start - l_overloads[i].dt_end]
        \o <<undef_timedelta>>

\* FlexibilityNeed.__init__ on a non-empty list of constructed events
FlexibilityNeed(l_overloads) ==
    LET l_recovery_times == RecoveryTimes(l_overloads)
        hours == [i \in 1..Len(l_recovery_times) |-> duration_to_hours(l_recovery_times[i])]
    IN  IF \E i \in 1..Len(hours) : FracIsZero(hours[i])
        THEN \* 1 / util.duration_to_hours(t) divides by zero
             [status |-> "ZeroDivisionError",
              l_overloads |-> l_overloads,
              str_flex_category |-> "",
              l_recovery_times |-> l_recovery_times]
        ELSE [status |-> "ok",
              l_overloads |-> l_overloads,
              str_flex_category |-> "",
              l_recovery_times |-> l_recovery_times,
              fl_avg_frequency |->
                  np_average([i \in 1..Len(hours) |-> FracDiv(FracOfInt(1), hours[i])]),
              fl_avg_spike |->
                  np_average([i \in 1..Len(l_overloads) |-> FracOfInt(l_overloads[i].fl_spike)])]

\* ticks to the calendar month of the model's calendar (twelve equal months)
TicksPerMonth == 4

\* dt_start.month
month(t) == ((t \div TicksPerMonth) % 12) + 1

\* util.datetime_to_season: Dec-Feb winter, Mar-May spring, Jun-Aug summer,
\* Sep-Nov autumn
datetime_to_season(t) ==
    LET m == month(t)
    IN  IF m \in {12, 1, 2} THEN "winter"
        ELSE IF m \in {3, 4, 5} THEN "spring"
        ELSE IF m \in {6, 7, 8} THEN "summer"
        ELSE "autumn"

\* FlexibilityNeed.extract_arrays
extract_arrays(self) ==
    LET l_overloads == self.l_overloads
        n == Len(l_overloads)
    IN  [status |-> "ok",
         spike |-> [i \in 1..n |-> l_overloads[i].fl_spike],
         energy |-> [i \in 1..n |-> l_overloads[i].fl_surplus_energy_MWh],
         duration |-> [i \in 1..n |-> l_overloads[i].duration_h],
         season |-> [i \in 1..n |-> datetime_to_season(l_overloads[i].dt_start)],
         month |-> [i \in 1..n |-> month(l_overloads[i].dt_start)],
         recovery |-> [i \in 1..Len(self.l_recovery_times) |->
                          duration_to_hours(self.l_recovery_times[i])],
         ramping |-> [i \in 1..n |-> l_overloads[i].fl_ramping]]

---------------------------------------------------------------------------
(* Inputs                                                                  *)

\* windows of n samples starting at tick t0: loads from Loads, timestamps
\* strictly increasing by a gap from Gaps
RECURSIVE WindowsFrom(_, _)
WindowsFrom(t0, n) ==
    IF n = 1 THEN {<<<<t0, l>>>> : l \in Loads}
    ELSE {Append(w, <<w[Len(w)][1] + g, l>>) :
              w \in WindowsFrom(t0, n - 1), g \in Gaps, l \in Loads}

Windows == UNION {WindowsFrom(0, n) : n \in 1..MaxLen}

RECURSIVE SeqsOfLen(_, _)
SeqsOfLen(S, n) ==
    IF n = 0 THEN {<<>>}
    ELSE {Append(s, x) : s \in SeqsOfLen(S, n - 1), x \in S}

\* width lists for a window of n samples: one per interval (n - 1), one
\* short, one per sample (n), or none at all
WidthLists(n) ==
    {NoWidthList} \cup
    {WidthList(s) : s \in UNION {SeqsOfLen(ListWidths, k) : k \in {j \in (n - 2)..n : j >= 0}}}

UniformCall(ts, lim, w) ==
    [ts_overload_event |-> ts,
     fl_power_limit |-> lim,
     equal_timestamp_spacing |-> TRUE,
     widths_for_equally_spaced_timestamps |-> w,
     all_timestamp_widths |-> NoWidthList]

\* widths_for_equally_spaced_timestamps is left at its default, 1
WidthListCall(ts, lim, ws) ==
    [ts_overload_event |-> ts,
     fl_power_limit |-> lim,
     equal_timestamp_spacing |-> FALSE,
     widths_for_equally_spaced_timestamps |-> 1,
     all_timestamp_widths |-> ws]

\* the calls tried on one window with one limit: every uniform width, and
\* equal_timestamp_spacing False with every width list
CallsOn(ts, lim) ==
    {UniformCall(ts, lim, w) : w \in UniformWidths}
    \cup {WidthListCall(ts, lim, ws) : ws \in WidthLists(Len(ts))}

\* the events that may follow in a list whose last event ended at tick t0
\* (-1: the list is empty): each constructed from a two-sample window with
\* hourly uniform spacing that starts an EventGaps gap after t0 (0: the two
\* windows share their boundary sample)
EventsAfter(t0) ==
    {OverloadEvent(UniformCall(<<<<t, 0>>, <<t + g, p>>>>, lim, 1)) :
         t \in (IF t0 < 0 THEN {0} ELSE {t0 + eg : eg \in EventGaps}),
         g \in Gaps, p \in Loads, lim \in NeedLimits}

---------------------------------------------------------------------------
(* The state machine: a session that constructs events, or a need          *)

Init ==
    /\ call = None
    /\ ev = None
    /\ op = "init"
    /\ prev = None
    /\ events = <<>>
    /\ need = None
    /\ arrs = None

\* OverloadEvent(ts, limit, ...) on a window
Construct ==
    /\ op = "init"
    /\ \E ts \in Windows, lim \in Limits : \E c \in CallsOn(ts, lim) :
        /\ call' = c
        /\ ev' = OverloadEvent(c)
    /\ op' = "construct"
    /\ prev' = None
    /\ UNCHANGED <<events, need, arrs>>

\* what the session keeps of the event before: how the call ended and, as far
\* as the call set them, its surplus energy and rms_load
Kept(e) ==
    IF e.status = "ok"
    THEN [status |-> "ok",
          fl_surplus_energy_MWh |-> e.fl_surplus_energy_MWh,
          fl_rms_load |-> e.fl_rms_load]
    ELSE IF e.status = "ZeroDivisionError"
    THEN [status |-> "ZeroDivisionError",
          fl_surplus_energy_MWh |-> e.fl_surplus_energy_MWh]
    ELSE [status |-> e.status]

\* the call before, with the load of sample k one higher
RaisedCall(c, k) ==
    [c EXCEPT !.ts_overload_event[k][2] = @ + 1]

\* OverloadEvent again, on the same window with one sample's load raised and
\* every other argument as before
ConstructRaised ==
    /\ op = "construct"
    /\ \E k \in 1..Len(call.ts_overload_event) :
        /\ call.ts_overload_event[k][2] < MaxLoad
        /\ call' = RaisedCall(call, k)
        /\ ev' = OverloadEvent(RaisedCall(call, k))
    /\ op' = "raise"
    /\ prev' = Kept(ev)
    /\ UNCHANGED <<events, need, arrs>>

\* the uniform call before, as a call with a width list: one width per
\* interval of the window, each the uniform width
AsWidthListCall(c) ==
    WidthListCall(c.ts_overload_event, c.fl_power_limit,
                  WidthList([i \in 1..(Len(c.ts_overload_event) - 1) |->
                                c.widths_for_equally_spaced_timestamps]))

\* OverloadEvent again, on the window of a uniform call, with
\* equal_timestamp_spacing False
ConstructWithWidthList ==
    /\ op = "construct"
    /\ call.equal_timestamp_spacing
    /\ call' = AsWidthListCall(call)
    /\ ev' = OverloadEvent(AsWidthListCall(call))
    /\ op' = "width_list"
    /\ prev' = Kept(ev)
    /\ UNCHANGED <<events, need, arrs>>

\* the caller's list of events grows by the next event in time
AppendOverload ==
    /\ op \in {"init", "list"}
    /\ Len(events) < MaxEvents
    /\ \E e \in EventsAfter(IF events = <<>> THEN -1
                              ELSE events[Len(events)].dt_end) :
        events' = Append(events, e)
    /\ op' = "list"
    /\ UNCHANGED <<call, ev, prev, need, arrs>>

\* FlexibilityNeed(l_overloads) on the caller's list
NewFlexibilityNeed ==
    /\ op = "list"
    /\ need' = FlexibilityNeed(events)
    /\ op' = "need"
    /\ UNCHANGED <<call, ev, prev, events, arrs>>

\* need.extract_arrays()
ExtractArrays ==
    /\ op = "need"
    /\ need.status = "ok"
    /\ arrs' = extract_arrays(need)
    /\ op' = "arrays"
    /\ UNCHANGED <<call, ev, prev, events, need>>

Next ==
    \/ Construct
    \/ ConstructRaised
    \/ ConstructWithWidthList
    \/ AppendOverload
    \/ NewFlexibilityNeed
    \/ ExtractArrays

Spec == Init /\ [][Next]_vars

---------------------------------------------------------------------------
(* Properties                                                              *)

MinusOne == FracOfInt(-1)

\* the arguments of the latest OverloadEvent call
Window == call.ts_overload_event
WindowLoads == LoadColumn(Window)
Limit == call.fl_power_limit
np_min(s) == CHOOSE m \in {s[i] : i \in 1..Len(s)} : \A i \in 1..Len(s) : m <= s[i]
\* the first position holding the greatest load, stated without recursion
FirstPeak(s) == CHOOSE i \in 1..Len(s) :
                    /\ \A j \in 1..Len(s) : s[j] <= s[i]
                    /\ \A j \in 1..(i - 1) : s[j] < s[i]
GreatestLoad(s) == s[FirstPeak(s)]

Called == op \in {"construct", "raise", "width_list"}
\* the call ran its accumulation loop to the end: fl_surplus_energy_MWh is set
HasEnergy(e) == e.status \in {"ok", "ZeroDivisionError"}

\* every width the call accumulates with is >= 0
NonNegativeWidths ==
    IF call.equal_timestamp_spacing
    THEN call.widths_for_equally_spaced_timestamps >= 0
    ELSE \A i \in 1..Len(call.all_timestamp_widths.list) : call.all_timestamp_widths.list[i] >= 0

\* the widths the call is given are the spacing of its timestamps, in hours
WidthsAreTimestampSpacing ==
    LET gap_h(i) == duration_to_hours(Window[i + 1][1] - Window[i][1])
    IN  IF call.equal_timestamp_spacing
        THEN \A i \in 1..(Len(Window) - 1) :
                 gap_h(i) = FracOfInt(call.widths_for_equally_spaced_timestamps)
        ELSE /\ ~call.all_timestamp_widths.is_none
             /\ Len(call.all_timestamp_widths.list) = Len(Window) - 1
             /\ \A i \in 1..(Len(Window) - 1) :
                    gap_h(i) = FracOfInt(call.all_timestamp_widths.list[i])

\* C1: whatever the window and the limit (negative, zero or positive), the
\* spike the constructor sets is >= 0; and when no load of the window is
\* above the limit the spike is 0 and, in either accumulation loop, the
\* surplus energy is 0.
C1_SpikeNonNegative ==
    Called =>
        /\ ev.fl_spike >= 0
        /\ (GreatestLoad(WindowLoads) <= Limit) =>
               /\ ev.fl_spike = 0
               /\ HasEnergy(ev) => ev.fl_surplus_energy_MWh = 0

\* C1 witness: an event built by the width-list loop over at least two
\* samples whose peak load equals the limit, with spike 0 and energy 0.
C1_Witness ==
    /\ op = "construct"
    /\ ev.status = "ok"
    /\ ~call.equal_timestamp_spacing
    /\ ev.accumulated >= 2
    /\ GreatestLoad(WindowLoads) = Limit
    /\ np_min(WindowLoads) < Limit
    /\ ev.fl_spike = 0
    /\ ev.fl_surplus_energy_MWh = 0

\* C2 (as claimed): for any window, percentage_overload is -1 exactly when
\* the limit is 0: -1 whenever the limit is 0, never -1 for another limit.
C2_SentinelIffZeroLimit_Claimed ==
    (Called /\ ev.status = "ok") =>
        (ev.percentage_overload = MinusOne <=> Limit = 0)

\* C3 (as claimed): ramping is -1 exactly when the first maximum of the load
\* is the first sample of the window.
C3_RampingSentinelIffPeakFirst_Claimed ==
    (Called /\ ev.status = "ok") =>
        (ev.fl_ramping = MinusOne <=> FirstPeak(WindowLoads) = 1)

\* C4 (as claimed): a single-sample window that passes the width-list check
\* yields an event, not an exception, with duration_h 0 (and sentinels
\* where a metric would divide by the duration).
C4_SingleSampleDoesNotRaise_Claimed ==
    (Called /\ Len(Window) = 1 /\ ev.status # "ValueError") =>
        /\ ev.status = "ok"
        /\ FracIsZero(ev.duration_h)

\* C5 (as claimed): with equal_timestamp_spacing False, a missing width list
\* and a width list whose length is not len(window) - 1 both end the call
\* with the validation error before the loop accumulates anything.
C5_WidthListValidated_Claimed ==
    (/\ Called
     /\ ~call.equal_timestamp_spacing
     /\ \/ call.all_timestamp_widths.is_none
        \/ Len(call.all_timestamp_widths.list) # Len(Window) - 1) =>
        /\ ev.status = "ValueError"
        /\ ev.accumulated = 0

\* C6: for a list of n >= 1 events FlexibilityNeed sets l_recovery_times to
\* n entries, entry i < n the next event's start minus this event's end and
\* entry n the undefined duration; extract_arrays gives "recovery" and
\* "duration" n entries each.
C6_RecoveryTimes ==
    (op \in {"need", "arrays"}) =>
        LET l == events
            n == Len(l)
            r == need.l_recovery_times
        IN  /\ n >= 1
            /\ need.l_overloads = l
            /\ Len(r) = n
            /\ \A i \in 1..(n - 1) : r[i] = l[i + 1].dt_start - l[i].dt_end
            /\ r[n] = undef_timedelta
            /\ \A i \in 1..(n - 1) : r[i] # undef_timedelta
            /\ (op = "arrays") =>
                   /\ Len(arrs.recovery) = n
                   /\ Len(arrs.duration) = n
                   /\ \A i \in 1..n : arrs.recovery[i] = duration_to_hours(r[i])

\* C6 witness: arrays extracted from a need over three events with gaps of
\* three ticks and one tick.
C6_Witness ==
    /\ op = "arrays"
    /\ Len(events) = 3
    /\ need.l_recovery_times = <<3, 1, undef_timedelta>>
    /\ Len(arrs.recovery) = 3

\* C7: with the limit, the timestamps and the spacing arguments unchanged and
\* no width negative, raising the load of one sample never lowers the
\* surplus energy.
C7_EnergyMonotone ==
    (op = "raise" /\ NonNegativeWidths /\ HasEnergy(ev) /\ HasEnergy(prev)) =>
        ev.fl_surplus_energy_MWh >= prev.fl_surplus_energy_MWh

\* C7 witness: a raise that took a sample above the limit and made the
\* surplus energy strictly larger, in the width-list loop.
C7_Witness ==
    /\ op = "raise"
    /\ ~call.equal_timestamp_spacing
    /\ NonNegativeWidths
    /\ ev.status = "ok"
    /\ prev.status = "ok"
    /\ ev.fl_surplus_energy_MWh > prev.fl_surplus_energy_MWh
    /\ prev.fl_surplus_energy_MWh > 0

\* C8 (as claimed): for a window of two or more samples whose widths are the
\* spacing of its timestamps, rms_load is the time-weighted mean of the
\* load: it lies between the least and the greatest load (and so equals L
\* when every sample carries L).
C8_RmsIsWeightedMean_Claimed ==
    (Called /\ ev.status = "ok" /\ Len(Window) >= 2 /\ WidthsAreTimestampSpacing) =>
        /\ FracLeq(FracOfInt(np_min(WindowLoads)), ev.fl_rms_load)
        /\ FracLeq(ev.fl_rms_load, FracOfInt(GreatestLoad(WindowLoads)))

\* C9 (as claimed): when the peak is not the first sample, ramping is the
\* clamped spike over the hours from the window start to the peak, so it is
\* 0 and not negative when the window never exceeds the limit.
C9_RampingIsSpikeOverDuration_Claimed ==
    (Called /\ ev.status = "ok" /\ FirstPeak(WindowLoads) # 1) =>
        ev.fl_ramping =
            FracDiv(FracOfInt(ev.fl_spike),
                    duration_to_hours(Window[FirstPeak(WindowLoads)][1] - Window[1][1]))

\* C10 (as claimed): the event built with uniform width w and the event built
\* from the same window with a list of len(window) - 1 widths, each w, have
\* the same surplus energy and the same rms_load.
C10_ModesAgree_Claimed ==
    (op = "width_list" /\ ev.status = "ok" /\ prev.status = "ok") =>
        /\ ev.fl_surplus_energy_MWh = prev.fl_surplus_energy_MWh
        /\ ev.fl_rms_load = prev.fl_rms_load

====
